---- MODULE Spec2Model ----
(***************************************************************************)
(* Lifecycle of one managed resource of the hashicorp-ovh provider:        *)
(* the Create / Read / Update / Delete handlers of the six resource kinds  *)
(* and the readiness poller waitForClusterReady, run against a remote      *)
(* control plane whose answers are chosen by the environment.              *)
(*                                                                         *)
(* Timing model of the poller.  Time is counted in ticker periods.  The    *)
(* clock advances (Tick) only while the poller is blocked in its select,   *)
(* that is, while none of its three channels is ready: the goroutine is    *)
(* scheduled promptly and a Get returns within the period in which it was  *)
(* issued.  When several channels are ready, select picks any of them.     *)
(*                                                                         *)
(* Attributes.  A configuration maps the settable attributes of a kind to  *)
(* values; a payload maps remote keys to JSON values.  The payloads of     *)
(* Create and Update and the d.Set calls of Read are computed from the     *)
(* field tables of the six kinds.  Spec runs the handlers over a few       *)
(* configurations; PlanSpec applies the same payload and dispatch          *)
(* operators to every pair of configurations that differ in a few          *)
(* attributes, and looks kind names up in the provider's registry.         *)
(***************************************************************************)
EXTENDS Integers, Sequences, FiniteSets, TLC

\* Number of remote ids the control plane hands out in one behaviour.
MaxIds == 2

\* Largest number of attributes in which a desired configuration differs
\* from the prior state (PlanSpec).
MaxChanged == 2

\* Largest number of clusters in the list a data source reads (DataSpec).
MaxListed == 2

\* The ids the control plane hands out, in order; an id is never reused.
RemoteIds == <<"abc123", "def456", "ghi789", "jkl012">>

Kinds == {"nomad", "vault", "consul", "boundary", "waypoint", "packer"}

\* time.After(30 * time.Minute) and time.NewTicker(30 * time.Second)
PollTimeoutMinutes == 30
TickIntervalSeconds == 30
\* The deadline, in ticker periods.
TimeoutTicks == (PollTimeoutMinutes * 60) \div TickIntervalSeconds

\* Values of the "status" field of a remote payload; Absent stands for a
\* field that is missing or is not a string.
StatusValues == {"PENDING", "READY", "FAILED"}
Absent == "<absent>"
NonString == "<non-string>"

VARIABLES
  kind,        \* resource kind of the managed resource
  id,          \* d.Id(): the remote ID held in local state, "" when none
  status,      \* the computed attribute "status" in local state
  issued,      \* number of ids the control plane has handed out
  remoteLive,  \* ids of the resources that exist remotely
  pc,          \* "idle", or "polling" while a handler is inside waitForClusterReady
  op,          \* the handler running or last run
  result,      \* how the last handler ended
  remoteErr,   \* class of the remote error that made the handler fail
  postResp,    \* the "id" field of the Post response of the last Create
  readObs,     \* what the Get of the handler's Read returned
  polled,      \* the handler has entered waitForClusterReady
  waitResult,  \* what waitForClusterReady returned
  elapsed,     \* ticker periods since the poller started
  tickPending, \* a tick is waiting in ticker.C
  ctxDone,     \* ctx.Done() is closed
  lastObs,     \* what the poller's last Get returned
  onlyPending, \* every non-READY Get of this poll reported PENDING
  pendingRun,  \* number of those PENDING reads (0 once onlyPending is lost)
  pollReads,   \* Gets issued by the poller
  cancelReads, \* Gets issued by the poller after ctx was cancelled
  posts, gets, puts, deletes,  \* remote calls issued by the handler
  attrs,       \* the settable attributes in local state, as last written by d.Set
  prior,       \* the state the handler was called with (the old values of d)
  desired,     \* the configuration the handler was called with (the new values of d)
  remoteAttrs, \* the fields the control plane stores for the managed resource
  payload,     \* the body of the Post or Put of the handler
  provider,    \* which New built the provider: "sdk" (part_005) or "framework" (part_004)
  lookup,      \* the last lookup of a kind name in the provider
  diags,       \* the error diagnostics of the last validation or Configure
  providerConfig, \* the provider block: the value given for each credential
  env,         \* the environment variables of the process
  client,      \* the credentials of the OVH client Configure handed out, if any
  filters,     \* the filter arguments of a data source
  listing,     \* the list the remote returns for the data source's collection
  clusters     \* the "clusters" attribute the data source has set

resVars == <<kind, id, status, issued, remoteLive>>
opVars == <<pc, op, result, remoteErr, postResp, readObs>>
pollVars == <<polled, waitResult, elapsed, tickPending, ctxDone, lastObs,
              onlyPending, pendingRun, pollReads, cancelReads>>
callVars == <<posts, gets, puts, deletes>>
cfgVars == <<attrs, prior, desired, remoteAttrs, payload>>
regVars == <<provider, lookup>>
confVars == <<diags, providerConfig, env, client>>
dataVars == <<filters, listing, clusters>>
extVars == <<confVars, dataVars>>
vars == <<resVars, opVars, pollVars, callVars, cfgVars, regVars, extVars>>

----------------------------------------------------------------------------
(* The schemas and the field tables of the six resource kinds.              *)

\* One schema.Schema entry: Type, Computed, ForceNew, Sensitive.
A(t, c, f, s) == [type |-> t, computed |-> c, forceNew |-> f, sensitive |-> s]

\* One d.Set call of a Read: the remote key, and whether the call sits
\* inside  if v, ok := body[key].(T); ok { ... }.
K(key, guarded) == [key |-> key, guarded |-> guarded]

\* Schema of resourceNomadCluster(): type and flags of every attribute.
resourceNomadCluster ==
  [name |-> A("string", FALSE, TRUE, FALSE),
   region |-> A("string", FALSE, TRUE, FALSE),
   server_count |-> A("int", FALSE, FALSE, FALSE),
   client_count |-> A("int", FALSE, FALSE, FALSE),
   instance_type |-> A("string", FALSE, FALSE, FALSE),
   datacenter |-> A("string", FALSE, FALSE, FALSE),
   vault_integration |-> A("bool", FALSE, FALSE, FALSE),
   consul_integration |-> A("bool", FALSE, FALSE, FALSE),
   acl_enabled |-> A("bool", FALSE, FALSE, FALSE),
   tls_enabled |-> A("bool", FALSE, FALSE, FALSE),
   web3_enabled |-> A("bool", FALSE, FALSE, FALSE),
   kata_containers |-> A("bool", FALSE, FALSE, FALSE),
   gpu_support |-> A("bool", FALSE, FALSE, FALSE),
   tags |-> A("map", FALSE, FALSE, FALSE),
   server_endpoints |-> A("list", TRUE, FALSE, FALSE),
   ui_url |-> A("string", TRUE, FALSE, FALSE),
   status |-> A("string", TRUE, FALSE, FALSE),
   created_at |-> A("string", TRUE, FALSE, FALSE)]

\* Payload literal of resourceNomadClusterCreate: remote key |-> the attribute d.Get reads.
resourceNomadClusterCreate ==
  [name |-> "name", region |-> "region", serverCount |-> "server_count",
   clientCount |-> "client_count", instanceType |-> "instance_type",
   datacenter |-> "datacenter", vaultIntegration |-> "vault_integration",
   consulIntegration |-> "consul_integration", aclEnabled |-> "acl_enabled",
   tlsEnabled |-> "tls_enabled", web3Enabled |-> "web3_enabled",
   kataContainers |-> "kata_containers", gpuSupport |-> "gpu_support",
   tags |-> "tags"]

\* The d.Set calls of resourceNomadClusterRead: attribute |-> the remote key read and
\* whether the call is guarded by a comma-ok type assertion.
resourceNomadClusterRead ==
  [name |-> K("name", FALSE), region |-> K("region", FALSE),
   server_count |-> K("serverCount", FALSE),
   client_count |-> K("clientCount", FALSE),
   instance_type |-> K("instanceType", FALSE),
   datacenter |-> K("datacenter", FALSE),
   vault_integration |-> K("vaultIntegration", FALSE),
   consul_integration |-> K("consulIntegration", FALSE),
   acl_enabled |-> K("aclEnabled", FALSE),
   tls_enabled |-> K("tlsEnabled", FALSE),
   web3_enabled |-> K("web3Enabled", FALSE),
   kata_containers |-> K("kataContainers", FALSE),
   gpu_support |-> K("gpuSupport", FALSE),
   server_endpoints |-> K("serverEndpoints", FALSE),
   ui_url |-> K("uiUrl", FALSE), status |-> K("status", FALSE),
   created_at |-> K("createdAt", FALSE), tags |-> K("tags", TRUE)]

\* The fields resourceNomadClusterUpdate watches (d.HasChanges and the d.HasChange
\* tests below it name the same attributes): remote key |-> attribute.
resourceNomadClusterUpdate ==
  [serverCount |-> "server_count", clientCount |-> "client_count",
   tags |-> "tags"]

\* Schema of resourceVaultCluster(): type and flags of every attribute.
resourceVaultCluster ==
  [name |-> A("string", FALSE, TRUE, FALSE),
   region |-> A("string", FALSE, TRUE, FALSE),
   node_count |-> A("int", FALSE, FALSE, FALSE),
   instance_type |-> A("string", FALSE, FALSE, FALSE),
   storage_type |-> A("string", FALSE, FALSE, FALSE),
   auto_unseal |-> A("bool", FALSE, FALSE, FALSE),
   audit_enabled |-> A("bool", FALSE, FALSE, FALSE),
   performance_replication |-> A("bool", FALSE, FALSE, FALSE),
   disaster_recovery |-> A("bool", FALSE, FALSE, FALSE),
   web3_secrets |-> A("bool", FALSE, FALSE, FALSE),
   kubernetes_auth |-> A("bool", FALSE, FALSE, FALSE),
   tags |-> A("map", FALSE, FALSE, FALSE),
   cluster_url |-> A("string", TRUE, FALSE, FALSE),
   ui_url |-> A("string", TRUE, FALSE, FALSE),
   root_token |-> A("string", TRUE, FALSE, TRUE),
   unseal_keys |-> A("list", TRUE, FALSE, TRUE),
   status |-> A("string", TRUE, FALSE, FALSE)]

\* Payload literal of resourceVaultClusterCreate: remote key |-> the attribute d.Get reads.
\* (variant: the literal also sends the computed status)
resourceVaultClusterCreate_SendsStatus ==
  [name |-> "name", region |-> "region", nodeCount |-> "node_count",
   instanceType |-> "instance_type", storageType |-> "storage_type",
   autoUnseal |-> "auto_unseal", auditEnabled |-> "audit_enabled",
   performanceReplication |-> "performance_replication",
   disasterRecovery |-> "disaster_recovery", web3Secrets |-> "web3_secrets",
   kubernetesAuth |-> "kubernetes_auth", tags |-> "tags", status |-> "status"]
resourceVaultClusterCreate ==
  [name |-> "name", region |-> "region", nodeCount |-> "node_count",
   instanceType |-> "instance_type", storageType |-> "storage_type",
   autoUnseal |-> "auto_unseal", auditEnabled |-> "audit_enabled",
   performanceReplication |-> "performance_replication",
   disasterRecovery |-> "disaster_recovery", web3Secrets |-> "web3_secrets",
   kubernetesAuth |-> "kubernetes_auth", tags |-> "tags"]

\* The d.Set calls of resourceVaultClusterRead: attribute |-> the remote key read and
\* whether the call is guarded by a comma-ok type assertion.
resourceVaultClusterRead ==
  [name |-> K("name", FALSE), region |-> K("region", FALSE),
   node_count |-> K("nodeCount", FALSE),
   instance_type |-> K("instanceType", FALSE),
   storage_type |-> K("storageType", FALSE),
   auto_unseal |-> K("autoUnseal", FALSE),
   audit_enabled |-> K("auditEnabled", FALSE),
   performance_replication |-> K("performanceReplication", FALSE),
   disaster_recovery |-> K("disasterRecovery", FALSE),
   web3_secrets |-> K("web3Secrets", FALSE),
   kubernetes_auth |-> K("kubernetesAuth", FALSE),
   cluster_url |-> K("clusterUrl", FALSE), ui_url |-> K("uiUrl", FALSE),
   status |-> K("status", FALSE), root_token |-> K("rootToken", TRUE),
   unseal_keys |-> K("unsealKeys", TRUE), tags |-> K("tags", TRUE)]

\* The fields resourceVaultClusterUpdate watches (d.HasChanges and the d.HasChange
\* tests below it name the same attributes): remote key |-> attribute.
resourceVaultClusterUpdate ==
  [nodeCount |-> "node_count", tags |-> "tags"]

\* Schema of resourceConsulCluster(): type and flags of every attribute.
resourceConsulCluster ==
  [name |-> A("string", FALSE, TRUE, FALSE),
   region |-> A("string", FALSE, TRUE, FALSE),
   server_count |-> A("int", FALSE, FALSE, FALSE),
   client_count |-> A("int", FALSE, FALSE, FALSE),
   instance_type |-> A("string", FALSE, FALSE, FALSE),
   datacenter |-> A("string", FALSE, FALSE, FALSE),
   connect_enabled |-> A("bool", FALSE, FALSE, FALSE),
   acl_enabled |-> A("bool", FALSE, FALSE, FALSE),
   encryption_enabled |-> A("bool", FALSE, FALSE, FALSE),
   tls_enabled |-> A("bool", FALSE, FALSE, FALSE),
   ui_enabled |-> A("bool", FALSE, FALSE, FALSE),
   monitoring_enabled |-> A("bool", FALSE, FALSE, FALSE),
   backup_enabled |-> A("bool", FALSE, FALSE, FALSE),
   web3_services |-> A("bool", FALSE, FALSE, FALSE),
   tags |-> A("map", FALSE, FALSE, FALSE),
   server_endpoints |-> A("list", TRUE, FALSE, FALSE),
   ui_url |-> A("string", TRUE, FALSE, FALSE),
   gossip_key |-> A("string", TRUE, FALSE, TRUE),
   master_token |-> A("string", TRUE, FALSE, TRUE),
   status |-> A("string", TRUE, FALSE, FALSE)]

\* Payload literal of resourceConsulClusterCreate: remote key |-> the attribute d.Get reads.
resourceConsulClusterCreate ==
  [name |-> "name", region |-> "region", serverCount |-> "server_count",
   clientCount |-> "client_count", instanceType |-> "instance_type",
   datacenter |-> "datacenter", connectEnabled |-> "connect_enabled",
   aclEnabled |-> "acl_enabled", encryptionEnabled |-> "encryption_enabled",
   tlsEnabled |-> "tls_enabled", uiEnabled |-> "ui_enabled",
   monitoringEnabled |-> "monitoring_enabled",
   backupEnabled |-> "backup_enabled", web3Services |-> "web3_services",
   tags |-> "tags"]

\* The d.Set calls of resourceConsulClusterRead: attribute |-> the remote key read and
\* whether the call is guarded by a comma-ok type assertion.
resourceConsulClusterRead ==
  [name |-> K("name", FALSE), region |-> K("region", FALSE),
   server_count |-> K("serverCount", FALSE),
   client_count |-> K("clientCount", FALSE),
   instance_type |-> K("instanceType", FALSE),
   datacenter |-> K("datacenter", FALSE),
   connect_enabled |-> K("connectEnabled", FALSE),
   acl_enabled |-> K("aclEnabled", FALSE),
   encryption_enabled |-> K("encryptionEnabled", FALSE),
   tls_enabled |-> K("tlsEnabled", FALSE),
   ui_enabled |-> K("uiEnabled", FALSE),
   monitoring_enabled |-> K("monitoringEnabled", FALSE),
   backup_enabled |-> K("backupEnabled", FALSE),
   web3_services |-> K("web3Services", FALSE),
   server_endpoints |-> K("serverEndpoints", FALSE),
   ui_url |-> K("uiUrl", FALSE), status |-> K("status", FALSE),
   gossip_key |-> K("gossipKey", TRUE),
   master_token |-> K("masterToken", TRUE), tags |-> K("tags", TRUE)]

\* The fields resourceConsulClusterUpdate watches (d.HasChanges and the d.HasChange
\* tests below it name the same attributes): remote key |-> attribute.
resourceConsulClusterUpdate ==
  [serverCount |-> "server_count", clientCount |-> "client_count",
   tags |-> "tags"]

\* Schema of resourceBoundaryCluster(): type and flags of every attribute.
resourceBoundaryCluster ==
  [name |-> A("string", FALSE, TRUE, FALSE),
   region |-> A("string", FALSE, TRUE, FALSE),
   controller_count |-> A("int", FALSE, FALSE, FALSE),
   worker_count |-> A("int", FALSE, FALSE, FALSE),
   instance_type |-> A("string", FALSE, FALSE, FALSE),
   database_type |-> A("string", FALSE, FALSE, FALSE),
   vault_integration |-> A("bool", FALSE, FALSE, FALSE),
   ldap_auth |-> A("bool", FALSE, FALSE, FALSE),
   oidc_auth |-> A("bool", FALSE, FALSE, FALSE),
   session_recording |-> A("bool", FALSE, FALSE, FALSE),
   multi_hop_sessions |-> A("bool", FALSE, FALSE, FALSE),
   web3_targets |-> A("bool", FALSE, FALSE, FALSE),
   tags |-> A("map", FALSE, FALSE, FALSE),
   controller_endpoints |-> A("list", TRUE, FALSE, FALSE),
   ui_url |-> A("string", TRUE, FALSE, FALSE),
   auth_method_id |-> A("string", TRUE, FALSE, FALSE),
   status |-> A("string", TRUE, FALSE, FALSE)]

\* Payload literal of resourceBoundaryClusterCreate: remote key |-> the attribute d.Get reads.
resourceBoundaryClusterCreate ==
  [name |-> "name", region |-> "region",
   controllerCount |-> "controller_count", workerCount |-> "worker_count",
   instanceType |-> "instance_type", databaseType |-> "database_type",
   vaultIntegration |-> "vault_integration", ldapAuth |-> "ldap_auth",
   oidcAuth |-> "oidc_auth", sessionRecording |-> "session_recording",
   multiHopSessions |-> "multi_hop_sessions", web3Targets |-> "web3_targets",
   tags |-> "tags"]

\* The d.Set calls of resourceBoundaryClusterRead: attribute |-> the remote key read and
\* whether the call is guarded by a comma-ok type assertion.
resourceBoundaryClusterRead ==
  [name |-> K("name", FALSE), region |-> K("region", FALSE),
   controller_count |-> K("controllerCount", FALSE),
   worker_count |-> K("workerCount", FALSE),
   instance_type |-> K("instanceType", FALSE),
   database_type |-> K("databaseType", FALSE),
   vault_integration |-> K("vaultIntegration", FALSE),
   ldap_auth |-> K("ldapAuth", FALSE), oidc_auth |-> K("oidcAuth", FALSE),
   session_recording |-> K("sessionRecording", FALSE),
   multi_hop_sessions |-> K("multiHopSessions", FALSE),
   web3_targets |-> K("web3Targets", FALSE),
   controller_endpoints |-> K("controllerEndpoints", FALSE),
   ui_url |-> K("uiUrl", FALSE), auth_method_id |-> K("authMethodId", FALSE),
   status |-> K("status", FALSE), tags |-> K("tags", TRUE)]

\* The fields resourceBoundaryClusterUpdate watches (d.HasChanges and the d.HasChange
\* tests below it name the same attributes): remote key |-> attribute.
resourceBoundaryClusterUpdate ==
  [controllerCount |-> "controller_count", workerCount |-> "worker_count",
   tags |-> "tags"]

\* Schema of resourceWaypointRunner(): type and flags of every attribute.
resourceWaypointRunner ==
  [name |-> A("string", FALSE, TRUE, FALSE),
   region |-> A("string", FALSE, TRUE, FALSE),
   instance_type |-> A("string", FALSE, FALSE, FALSE),
   runner_type |-> A("string", FALSE, FALSE, FALSE),
   capacity |-> A("int", FALSE, FALSE, FALSE),
   docker_enabled |-> A("bool", FALSE, FALSE, FALSE),
   kubernetes_enabled |-> A("bool", FALSE, FALSE, FALSE),
   nomad_enabled |-> A("bool", FALSE, FALSE, FALSE),
   web3_deployments |-> A("bool", FALSE, FALSE, FALSE),
   tags |-> A("map", FALSE, FALSE, FALSE),
   runner_id |-> A("string", TRUE, FALSE, FALSE),
   token |-> A("string", TRUE, FALSE, TRUE),
   endpoint |-> A("string", TRUE, FALSE, FALSE),
   status |-> A("string", TRUE, FALSE, FALSE)]

\* Payload literal of resourceWaypointRunnerCreate: remote key |-> the attribute d.Get reads.
resourceWaypointRunnerCreate ==
  [name |-> "name", region |-> "region", instanceType |-> "instance_type",
   runnerType |-> "runner_type", capacity |-> "capacity",
   dockerEnabled |-> "docker_enabled",
   kubernetesEnabled |-> "kubernetes_enabled",
   nomadEnabled |-> "nomad_enabled", web3Deployments |-> "web3_deployments",
   tags |-> "tags"]

\* The d.Set calls of resourceWaypointRunnerRead: attribute |-> the remote key read and
\* whether the call is guarded by a comma-ok type assertion.
\* (variant: capacity is read from another key)
resourceWaypointRunnerRead_WrongKey ==
  [name |-> K("name", FALSE), region |-> K("region", FALSE),
   instance_type |-> K("instanceType", FALSE),
   runner_type |-> K("runnerType", FALSE), capacity |-> K("runnerCapacity", FALSE),
   docker_enabled |-> K("dockerEnabled", FALSE),
   kubernetes_enabled |-> K("kubernetesEnabled", FALSE),
   nomad_enabled |-> K("nomadEnabled", FALSE),
   web3_deployments |-> K("web3Deployments", FALSE),
   runner_id |-> K("runnerId", FALSE), token |-> K("token", FALSE),
   endpoint |-> K("endpoint", FALSE), status |-> K("status", FALSE),
   tags |-> K("tags", TRUE)]
resourceWaypointRunnerRead ==
  [name |-> K("name", FALSE), region |-> K("region", FALSE),
   instance_type |-> K("instanceType", FALSE),
   runner_type |-> K("runnerType", FALSE), capacity |-> K("capacity", FALSE),
   docker_enabled |-> K("dockerEnabled", FALSE),
   kubernetes_enabled |-> K("kubernetesEnabled", FALSE),
   nomad_enabled |-> K("nomadEnabled", FALSE),
   web3_deployments |-> K("web3Deployments", FALSE),
   runner_id |-> K("runnerId", FALSE), token |-> K("token", FALSE),
   endpoint |-> K("endpoint", FALSE), status |-> K("status", FALSE),
   tags |-> K("tags", TRUE)]

\* The fields resourceWaypointRunnerUpdate watches (d.HasChanges and the d.HasChange
\* tests below it name the same attributes): remote key |-> attribute.
resourceWaypointRunnerUpdate ==
  [capacity |-> "capacity", tags |-> "tags"]

\* Schema of resourcePackerTemplate(): type and flags of every attribute.
resourcePackerTemplate ==
  [name |-> A("string", FALSE, TRUE, FALSE),
   region |-> A("string", FALSE, TRUE, FALSE),
   source_image |-> A("string", FALSE, FALSE, FALSE),
   instance_type |-> A("string", FALSE, FALSE, FALSE),
   builders |-> A("list", FALSE, FALSE, FALSE),
   provisioners |-> A("list", FALSE, FALSE, FALSE),
   post_processors |-> A("list", FALSE, FALSE, FALSE),
   variables |-> A("map", FALSE, FALSE, FALSE),
   auto_build |-> A("bool", FALSE, FALSE, FALSE),
   build_timeout |-> A("int", FALSE, FALSE, FALSE),
   web3_tools |-> A("bool", FALSE, FALSE, FALSE),
   kata_support |-> A("bool", FALSE, FALSE, FALSE),
   tags |-> A("map", FALSE, FALSE, FALSE),
   template_id |-> A("string", TRUE, FALSE, FALSE),
   last_build_id |-> A("string", TRUE, FALSE, FALSE),
   image_id |-> A("string", TRUE, FALSE, FALSE),
   status |-> A("string", TRUE, FALSE, FALSE)]

\* Payload literal of resourcePackerTemplateCreate: remote key |-> the attribute d.Get reads.
resourcePackerTemplateCreate ==
  [name |-> "name", region |-> "region", sourceImage |-> "source_image",
   instanceType |-> "instance_type", builders |-> "builders",
   provisioners |-> "provisioners", postProcessors |-> "post_processors",
   variables |-> "variables", autoBuild |-> "auto_build",
   buildTimeout |-> "build_timeout", web3Tools |-> "web3_tools",
   kataSupport |-> "kata_support", tags |-> "tags"]

\* The d.Set calls of resourcePackerTemplateRead: attribute |-> the remote key read and
\* whether the call is guarded by a comma-ok type assertion.
resourcePackerTemplateRead ==
  [name |-> K("name", FALSE), region |-> K("region", FALSE),
   source_image |-> K("sourceImage", FALSE),
   instance_type |-> K("instanceType", FALSE),
   builders |-> K("builders", FALSE),
   provisioners |-> K("provisioners", FALSE),
   post_processors |-> K("postProcessors", FALSE),
   variables |-> K("variables", FALSE), auto_build |-> K("autoBuild", FALSE),
   build_timeout |-> K("buildTimeout", FALSE),
   web3_tools |-> K("web3Tools", FALSE),
   kata_support |-> K("kataSupport", FALSE),
   template_id |-> K("templateId", FALSE),
   last_build_id |-> K("lastBuildId", FALSE),
   image_id |-> K("imageId", FALSE), status |-> K("status", FALSE),
   tags |-> K("tags", TRUE)]

\* The fields resourcePackerTemplateUpdate watches (d.HasChanges and the d.HasChange
\* tests below it name the same attributes): remote key |-> attribute.
resourcePackerTemplateUpdate ==
  [sourceImage |-> "source_image", builders |-> "builders",
   provisioners |-> "provisioners", postProcessors |-> "post_processors",
   variables |-> "variables", autoBuild |-> "auto_build",
   buildTimeout |-> "build_timeout", tags |-> "tags"]

Schema(k) ==
  CASE k = "nomad" -> resourceNomadCluster
    [] k = "vault" -> resourceVaultCluster
    [] k = "consul" -> resourceConsulCluster
    [] k = "boundary" -> resourceBoundaryCluster
    [] k = "waypoint" -> resourceWaypointRunner
    [] k = "packer" -> resourcePackerTemplate

CreateFields(k) ==
  CASE k = "nomad" -> resourceNomadClusterCreate
    [] k = "vault" -> resourceVaultClusterCreate
    [] k = "consul" -> resourceConsulClusterCreate
    [] k = "boundary" -> resourceBoundaryClusterCreate
    [] k = "waypoint" -> resourceWaypointRunnerCreate
    [] k = "packer" -> resourcePackerTemplateCreate

ReadFields(k) ==
  CASE k = "nomad" -> resourceNomadClusterRead
    [] k = "vault" -> resourceVaultClusterRead
    [] k = "consul" -> resourceConsulClusterRead
    [] k = "boundary" -> resourceBoundaryClusterRead
    [] k = "waypoint" -> resourceWaypointRunnerRead
    [] k = "packer" -> resourcePackerTemplateRead

UpdateFields(k) ==
  CASE k = "nomad" -> resourceNomadClusterUpdate
    [] k = "vault" -> resourceVaultClusterUpdate
    [] k = "consul" -> resourceConsulClusterUpdate
    [] k = "boundary" -> resourceBoundaryClusterUpdate
    [] k = "waypoint" -> resourceWaypointRunnerUpdate
    [] k = "packer" -> resourcePackerTemplateUpdate

TypeOf(k, a) == Schema(k)[a].type

\* The attributes by flag, per kind; Settable are those a configuration
\* sets, Watched those the Update handler looks at.
AttrSets ==
  [k \in Kinds |->
     [computed |-> {a \in DOMAIN Schema(k) : Schema(k)[a].computed},
      sensitive |-> {a \in DOMAIN Schema(k) : Schema(k)[a].sensitive},
      forceNew |-> {a \in DOMAIN Schema(k) : Schema(k)[a].forceNew},
      settable |-> {a \in DOMAIN Schema(k) : ~Schema(k)[a].computed},
      watched |-> {UpdateFields(k)[key] : key \in DOMAIN UpdateFields(k)}]]
Computed(k) == AttrSets[k].computed
Sensitive(k) == AttrSets[k].sensitive
ForceNew(k) == AttrSets[k].forceNew
Settable(k) == AttrSets[k].settable
Watched(k) == AttrSets[k].watched

----------------------------------------------------------------------------
(* Attribute values, configurations and JSON payloads.                      *)

\* No attributes, or no payload.
NoFields == [a \in {} |-> ""]

\* The tags of the acceptance-test configurations.
TagsBefore == [Environment |-> "test", Team |-> "platform", ManagedBy |-> "terraform"]
TagsAfter == [Environment |-> "staging", Team |-> "devops", Owner |-> "john.doe"]

\* Two values of each schema type, and the zero value d.Get returns for an
\* attribute that was never set.
FirstValue(t) ==
  CASE t = "string" -> "a" [] t = "int" -> 3 [] t = "bool" -> TRUE
    [] t = "map" -> TagsBefore [] t = "list" -> <<"x">>
SecondValue(t) ==
  CASE t = "string" -> "b" [] t = "int" -> 5 [] t = "bool" -> FALSE
    [] t = "map" -> TagsAfter [] t = "list" -> <<"x", "y">>
ZeroValue(t) ==
  CASE t = "string" -> "" [] t = "int" -> 0 [] t = "bool" -> FALSE
    [] t = "map" -> NoFields [] t = "list" -> <<>>

\* A configuration of kind k with every attribute at its first value, and
\* cfg with the attributes in S switched to their other value.
BaseConfigs == [k \in Kinds |-> [a \in Settable(k) |-> FirstValue(TypeOf(k, a))]]
BaseConfig(k) == BaseConfigs[k]
Flip(k, cfg, S) ==
  [a \in DOMAIN cfg |->
     IF a \notin S THEN cfg[a]
     ELSE IF cfg[a] = FirstValue(TypeOf(k, a)) THEN SecondValue(TypeOf(k, a))
     ELSE FirstValue(TypeOf(k, a))]

\* The configurations the handlers are run with: the base one, one that
\* changes every watched attribute (count fields and tags), and one that
\* changes every other attribute that does not force replacement.
UpdateConfigs ==
  [k \in Kinds |->
     {BaseConfig(k),
      Flip(k, BaseConfig(k), Watched(k)),
      Flip(k, BaseConfig(k), (Settable(k) \ Watched(k)) \ ForceNew(k))}]
LifecycleConfigs(k) == UpdateConfigs[k]

\* d.Get(a): the value of the attribute, its zero value when unset.
DGet(k, cfg, a) == IF a \in DOMAIN cfg THEN cfg[a] ELSE ZeroValue(TypeOf(k, a))

\* encoding/json: the JSON value a Go value of schema type t is sent as,
\* and decoded from (numbers come back as float64, objects as map, ...).
JsonKind(t) ==
  CASE t = "string" -> "string" [] t = "int" -> "number" [] t = "bool" -> "bool"
    [] t = "map" -> "object" [] t = "list" -> "array"
Encode(t, v) == [json |-> JsonKind(t), val |-> v]
Null == [json |-> "null", val |-> "null"]

\* body[key] of a decoded JSON object: nil when the key is missing.
Field(body, key) == IF key \in DOMAIN body THEN body[key] ELSE Null

\* The map literal of resource<Kind>Create: every listed key with d.Get
\* of its attribute.
CreatePayload(k, cfg) ==
  [key \in DOMAIN CreateFields(k) |->
     Encode(TypeOf(k, CreateFields(k)[key]), DGet(k, cfg, CreateFields(k)[key]))]

\* d.HasChange(a): the new value of d differs from the old one.
\* (variant: every attribute is reported as changed)
HasChange_Always(k, old, new, a) == TRUE
HasChange(k, old, new, a) == DGet(k, old, a) # DGet(k, new, a)

\* updateConfig of resource<Kind>Update: the watched fields that changed,
\* each with its new value; empty when d.HasChanges(...) is false.
\* (variants: every watched field is sent; the tags sent are the old tags
\* overlaid with the new ones)
UpdatePayload_AllWatched(k, old, new) ==
  [key \in DOMAIN UpdateFields(k) |->
     Encode(TypeOf(k, UpdateFields(k)[key]), DGet(k, new, UpdateFields(k)[key]))]
UpdatePayload_MergesTags(k, old, new) ==
  LET changed == {key \in DOMAIN UpdateFields(k) :
                    HasChange(k, old, new, UpdateFields(k)[key])}
      was == DGet(k, old, "tags")
      now == DGet(k, new, "tags")
      merged == [t \in DOMAIN was \cup DOMAIN now |->
                   IF t \in DOMAIN now THEN now[t] ELSE was[t]]
  IN [key \in changed |->
        IF UpdateFields(k)[key] = "tags"
          THEN Encode("map", merged)
          ELSE Encode(TypeOf(k, UpdateFields(k)[key]),
                      DGet(k, new, UpdateFields(k)[key]))]
UpdatePayload(k, old, new) ==
  LET changed == {key \in DOMAIN UpdateFields(k) :
                    HasChange(k, old, new, UpdateFields(k)[key])}
  IN [key \in changed |->
        Encode(TypeOf(k, UpdateFields(k)[key]), DGet(k, new, UpdateFields(k)[key]))]

\* d.Set(a, w) for an attribute of type t holding cur: a JSON value of the
\* matching kind is stored (a number is converted to int); nil stores the
\* zero value; any other value makes d.Set fail, which Read ignores.  A
\* guarded call is skipped unless the type assertion succeeds.
SetValue(t, guarded, cur, w) ==
  IF w.json = JsonKind(t) THEN w.val
  ELSE IF guarded THEN cur
  ELSE IF w.json = "null" THEN ZeroValue(t)
  ELSE cur

\* The d.Set calls of resource<Kind>Read on a d holding cur, for the
\* settable attributes.
ReadAttrs(k, cur, body) ==
  [a \in Settable(k) |->
     IF a \in DOMAIN ReadFields(k)
       THEN SetValue(TypeOf(k, a), ReadFields(k)[a].guarded, DGet(k, cur, a),
                     Field(body, ReadFields(k)[a].key))
       ELSE DGet(k, cur, a)]

\* ForceNew: true.  A change of such an attribute is never handed to
\* Update; the resource is destroyed and created again.
\* (variant: region is not marked ForceNew)
RequiresNew_NameOnly(k, old, new) == DGet(k, old, "name") # DGet(k, new, "name")
RequiresNew(k, old, new) ==
  \E a \in ForceNew(k) : DGet(k, old, a) # DGet(k, new, a)

\* How a change of configuration of an existing resource is applied
\* (CreateContext, UpdateContext, DeleteContext of the schema.Resource).
Dispatch(k, old, new) ==
  IF RequiresNew(k, old, new) THEN "replace"
  ELSE IF old # new THEN "update"
  ELSE "noop"

\* The control plane replaces the fields a Put names and keeps the others.
ApplyPut(stored, body) ==
  [key \in DOMAIN stored \cup DOMAIN body |->
     IF key \in DOMAIN body THEN body[key] ELSE stored[key]]

----------------------------------------------------------------------------
(* The provider's registry of kinds.                                        *)

\* ResourcesMap and DataSourcesMap of the schema.Provider built by New.
ResourcesMap ==
  {"hashicorp_ovh_nomad_cluster", "hashicorp_ovh_vault_cluster",
   "hashicorp_ovh_consul_cluster", "hashicorp_ovh_boundary_cluster",
   "hashicorp_ovh_waypoint_runner", "hashicorp_ovh_packer_template"}
DataSourcesMap ==
  {"hashicorp_ovh_nomad_clusters", "hashicorp_ovh_vault_clusters",
   "hashicorp_ovh_consul_clusters", "hashicorp_ovh_boundary_clusters"}

\* Resources() and DataSources() of HashiCorpOVHProvider: empty lists.
Resources == {}
DataSources == {}

\* What TestProviderResourcesAndDataSources expects to find.
expectedResources ==
  {"hashicorp_ovh_nomad_cluster", "hashicorp_ovh_vault_cluster",
   "hashicorp_ovh_consul_cluster", "hashicorp_ovh_boundary_cluster",
   "hashicorp_ovh_waypoint_runner", "hashicorp_ovh_packer_template"}
expectedDataSources ==
  {"hashicorp_ovh_nomad_clusters", "hashicorp_ovh_vault_clusters",
   "hashicorp_ovh_consul_clusters", "hashicorp_ovh_boundary_clusters"}

\* Two packages' worth of New: main serves the framework provider.
Providers == {"sdk", "framework"}

\* The kinds a provider has registered, per class.
Registered(p, class) ==
  IF p = "sdk"
    THEN (IF class = "resource" THEN ResourcesMap ELSE DataSourcesMap)
    ELSE (IF class = "resource" THEN Resources ELSE DataSources)

\* The names looked up: every registered name and some that are not.
LookupNames ==
  ResourcesMap \cup DataSourcesMap
  \cup {"hashicorp_ovh_packer_templates", "hashicorp_ovh_waypoint_runners",
        "hashicorp_ovh_unknown"}

NoLookup == [class |-> "none", name |-> "", found |-> FALSE]

----------------------------------------------------------------------------
(* The remote control plane (ovh.Client), as seen by the handlers.          *)

\* Get on /{collection}/{x}: a record, or an error; "notfound" only for a
\* resource that does not exist.
GetOutcomes(live, x) ==
  IF x \in live
    THEN {[err |-> "other", status |-> Absent]}
         \cup {[err |-> "none", status |-> s] : s \in StatusValues \cup {Absent}}
    ELSE {[err |-> "notfound", status |-> Absent], [err |-> "other", status |-> Absent]}

\* Put and Delete on /{collection}/{x}.
MutateOutcomes(live, x) ==
  IF x \in live THEN {"none", "other"} ELSE {"notfound", "other"}

\* Post on the collection: an error, or an object whose "id" field is
\* missing, not a string, empty, or the next fresh id.
PostResponses ==
  {[err |-> TRUE, idField |-> Absent]}
  \cup {[err |-> FALSE, idField |-> v] : v \in {Absent, NonString, ""}}
  \cup (IF issued < MaxIds
          THEN {[err |-> FALSE, idField |-> RemoteIds[issued + 1]]}
          ELSE {})

----------------------------------------------------------------------------
(* Pieces of the handlers.                                                  *)

\* result["id"].(string): the single-value type assertion panics unless
\* the field holds a string.
AssertStringPanics(v) == v \in {Absent, NonString}

\* Only the Nomad handlers call waitForClusterReady.
Polls(k) == k = "nomad"

\* status, ok := cluster["status"].(string); ok && status == "READY"
\* (variants: the comparison uses the wrong literal; the status is not
\* looked at)
IsReady_CaseMismatch(g) == g.err = "none" /\ g.status = "ready"
IsReady_AnyStatus(g) == g.err = "none"
IsReady(g) == g.err = "none" /\ g.status = "READY"

\* resource<Kind>Read: on any Get error the ID is cleared and an error
\* diagnostic is returned; otherwise the attributes are set from the payload.
\* (variant: d.Set("status", ...) is left out)
ReadBody_KeepsStatus(curId, curStatus, g) ==
  IF g.err # "none"
    THEN [id |-> "", status |-> curStatus, result |-> "err_read",
          remoteErr |-> g.err, readObs |-> "err"]
    ELSE [id |-> curId, status |-> curStatus,
          result |-> "ok", remoteErr |-> "none", readObs |-> g.status]
ReadBody(curId, curStatus, g) ==
  IF g.err # "none"
    THEN [id |-> "", status |-> curStatus, result |-> "err_read",
          remoteErr |-> g.err, readObs |-> "err"]
    ELSE [id |-> curId, status |-> IF g.status = Absent THEN "" ELSE g.status,
          result |-> "ok", remoteErr |-> "none", readObs |-> g.status]

\* if err := waitForClusterReady(...); err != nil { return diag.FromErr(...) }:
\* the ID set before the wait is kept and no remote call is issued.
\* (variant: the failed wait deletes the resource and clears the ID)
WaitFailed_Rollback(curId) == [id |-> "", deletes |-> 1]
WaitFailed(curId) == [id |-> curId, deletes |-> 0]

\* The cases of the poller's select that can proceed.
\* (variants: the select lacks the timeout case, or the ctx.Done() case)
ReadyCases_NoTimeout ==
  (IF tickPending THEN {"tick"} ELSE {}) \cup (IF ctxDone THEN {"done"} ELSE {})
ReadyCases_NoCtx ==
  (IF elapsed >= TimeoutTicks THEN {"timeout"} ELSE {})
  \cup (IF tickPending THEN {"tick"} ELSE {})
ReadyCases ==
  (IF elapsed >= TimeoutTicks THEN {"timeout"} ELSE {})
  \cup (IF tickPending THEN {"tick"} ELSE {})
  \cup (IF ctxDone THEN {"done"} ELSE {})

----------------------------------------------------------------------------
(* Frame helpers.                                                           *)

\* A handler that does not poll leaves the poller's state at rest.
PollAtRest ==
  /\ polled' = FALSE /\ waitResult' = "none" /\ elapsed' = 0
  /\ tickPending' = FALSE /\ ctxDone' = FALSE /\ lastObs' = "none"
  /\ onlyPending' = TRUE /\ pendingRun' = 0 /\ pollReads' = 0 /\ cancelReads' = 0

\* Entry of waitForClusterReady: the timer and the ticker are started.
PollStart ==
  /\ polled' = TRUE /\ waitResult' = "none" /\ elapsed' = 0
  /\ tickPending' = FALSE /\ ctxDone' = FALSE /\ lastObs' = "none"
  /\ onlyPending' = TRUE /\ pendingRun' = 0 /\ pollReads' = 0 /\ cancelReads' = 0

\* The handler returns after its Read, whose Get returned g.
FinishWithRead(g) ==
  LET r == ReadBody(id, status, g) IN
  /\ pc' = "idle"
  /\ id' = r.id /\ status' = r.status
  /\ result' = r.result /\ remoteErr' = r.remoteErr /\ readObs' = r.readObs

\* The attributes after the handler's Read, run on a d holding cur, whose
\* Get returned g with the fields in body.  With its ID cleared the
\* resource is gone from state, attributes included.
AfterRead(g, cur, body) ==
  IF g.err = "none" THEN ReadAttrs(kind, cur, body) ELSE NoFields

\* Nothing has been validated or configured and no data source was read.
ExtAtRest ==
  /\ diags = {} /\ providerConfig = NoFields /\ env = NoFields /\ client = NoFields
  /\ filters = NoFields /\ listing = <<>> /\ clusters = <<>>

\* A handler that is not called with a configuration.
NoConfig == prior' = NoFields /\ desired' = NoFields /\ payload' = NoFields

Init ==
  /\ kind \in Kinds
  /\ id = "" /\ status = "" /\ issued = 0 /\ remoteLive = {}
  /\ pc = "idle" /\ op = "none" /\ result = "none" /\ remoteErr = "none"
  /\ postResp = "<none>" /\ readObs = "none"
  /\ polled = FALSE /\ waitResult = "none" /\ elapsed = 0
  /\ tickPending = FALSE /\ ctxDone = FALSE /\ lastObs = "none"
  /\ onlyPending = TRUE /\ pendingRun = 0 /\ pollReads = 0 /\ cancelReads = 0
  /\ posts = 0 /\ gets = 0 /\ puts = 0 /\ deletes = 0
  /\ attrs = NoFields /\ prior = NoFields /\ desired = NoFields
  /\ remoteAttrs = NoFields /\ payload = NoFields
  /\ provider = "sdk" /\ lookup = NoLookup
  /\ ExtAtRest

----------------------------------------------------------------------------
(* resource<Kind>Create                                                     *)

\* Post fails: the error is returned, nothing else happens.
CreatePostFails ==
  /\ pc = "idle" /\ id = ""
  /\ \E resp \in PostResponses :
       /\ resp.err
       /\ postResp' = "<error>"
  /\ \E cfg \in {BaseConfig(kind)} :
       /\ prior' = NoFields /\ desired' = cfg
       /\ payload' = CreatePayload(kind, cfg)
  /\ UNCHANGED <<attrs, remoteAttrs, regVars, extVars>>
  /\ op' = "Create" /\ result' = "err_post" /\ remoteErr' = "other"
  /\ readObs' = "none"
  /\ posts' = 1 /\ gets' = 0 /\ puts' = 0 /\ deletes' = 0
  /\ PollAtRest
  /\ UNCHANGED <<resVars, pc>>

\* Post succeeds but result["id"] is not a string: the type assertion panics.
CreatePanics ==
  /\ pc = "idle" /\ id = ""
  /\ \E resp \in PostResponses :
       /\ ~resp.err /\ AssertStringPanics(resp.idField)
       /\ postResp' = resp.idField
  /\ \E cfg \in {BaseConfig(kind)} :
       /\ prior' = NoFields /\ desired' = cfg
       /\ payload' = CreatePayload(kind, cfg)
  /\ UNCHANGED <<attrs, remoteAttrs, regVars, extVars>>
  /\ op' = "Create" /\ result' = "panic" /\ remoteErr' = "none"
  /\ readObs' = "none"
  /\ posts' = 1 /\ gets' = 0 /\ puts' = 0 /\ deletes' = 0
  /\ PollAtRest
  /\ UNCHANGED <<resVars, pc>>

\* Post succeeds, the ID is stored, and the handler enters the poller.
CreateStartsPolling ==
  /\ pc = "idle" /\ id = "" /\ Polls(kind)
  /\ \E resp \in PostResponses, cfg \in {BaseConfig(kind)} :
       /\ ~resp.err /\ ~AssertStringPanics(resp.idField)
       /\ postResp' = resp.idField
       /\ id' = resp.idField
       /\ prior' = NoFields /\ desired' = cfg
       /\ payload' = CreatePayload(kind, cfg)
       /\ IF resp.idField # ""
            THEN /\ issued' = issued + 1
                 /\ remoteLive' = remoteLive \cup {resp.idField}
                 /\ remoteAttrs' = CreatePayload(kind, cfg)
            ELSE UNCHANGED <<issued, remoteLive, remoteAttrs>>
  /\ UNCHANGED <<attrs, regVars, extVars>>
  /\ pc' = "polling" /\ op' = "Create" /\ result' = "none" /\ remoteErr' = "none"
  /\ readObs' = "none"
  /\ posts' = 1 /\ gets' = 0 /\ puts' = 0 /\ deletes' = 0
  /\ PollStart
  /\ UNCHANGED <<kind, status>>

\* Post succeeds, the ID is stored, and the handler goes straight to Read.
CreateReadsBack ==
  /\ pc = "idle" /\ id = "" /\ ~Polls(kind)
  /\ \E resp \in PostResponses, cfg \in {BaseConfig(kind)} :
       /\ ~resp.err /\ ~AssertStringPanics(resp.idField)
       /\ postResp' = resp.idField
       /\ prior' = NoFields /\ desired' = cfg
       /\ payload' = CreatePayload(kind, cfg)
       /\ LET live == IF resp.idField # "" THEN remoteLive \cup {resp.idField}
                                            ELSE remoteLive
              stored == IF resp.idField # "" THEN CreatePayload(kind, cfg)
                                              ELSE remoteAttrs
          IN /\ remoteLive' = live
             /\ remoteAttrs' = stored
             /\ issued' = IF resp.idField # "" THEN issued + 1 ELSE issued
             /\ \E g \in GetOutcomes(live, resp.idField) :
                  LET r == ReadBody(resp.idField, status, g) IN
                  /\ id' = r.id /\ status' = r.status
                  /\ result' = r.result /\ remoteErr' = r.remoteErr
                  /\ readObs' = r.readObs
                  /\ attrs' = AfterRead(g, cfg, stored)
  /\ UNCHANGED <<regVars, extVars>>
  /\ op' = "Create"
  /\ posts' = 1 /\ gets' = 1 /\ puts' = 0 /\ deletes' = 0
  /\ PollAtRest
  /\ UNCHANGED <<kind, pc>>

Create == CreatePostFails \/ CreatePanics \/ CreateStartsPolling \/ CreateReadsBack

----------------------------------------------------------------------------
(* resource<Kind>Read, called on its own (refresh)                          *)

Read ==
  /\ pc = "idle" /\ id # ""
  /\ \E g \in GetOutcomes(remoteLive, id) :
       FinishWithRead(g) /\ attrs' = AfterRead(g, attrs, remoteAttrs)
  /\ NoConfig
  /\ UNCHANGED <<remoteAttrs, regVars, extVars>>
  /\ op' = "Read" /\ postResp' = "<none>"
  /\ posts' = 0 /\ gets' = 1 /\ puts' = 0 /\ deletes' = 0
  /\ PollAtRest
  /\ UNCHANGED <<kind, issued, remoteLive>>

----------------------------------------------------------------------------
(* resource<Kind>Update                                                     *)

\* Update is called with a configuration that differs from the state in
\* attributes that do not force replacement.
UpdateCalled(cfg) ==
  /\ Dispatch(kind, attrs, cfg) = "update"
  /\ prior' = attrs /\ desired' = cfg
  /\ payload' = UpdatePayload(kind, attrs, cfg)

\* None of the fields the handler watches has changed: Read only.
UpdateNoChange ==
  /\ pc = "idle" /\ id # ""
  /\ \E cfg \in LifecycleConfigs(kind) :
       /\ UpdateCalled(cfg)
       /\ payload' = NoFields
       /\ \E g \in GetOutcomes(remoteLive, id) :
            FinishWithRead(g) /\ attrs' = AfterRead(g, cfg, remoteAttrs)
  /\ UNCHANGED <<remoteAttrs, regVars, extVars>>
  /\ op' = "Update" /\ postResp' = "<none>"
  /\ posts' = 0 /\ gets' = 1 /\ puts' = 0 /\ deletes' = 0
  /\ PollAtRest
  /\ UNCHANGED <<kind, issued, remoteLive>>

\* Put fails: the error is returned.
\* (variants: the Put is issued a second time before giving up; the ID is
\* cleared on the way out)
UpdatePutFails_Retries ==
  /\ pc = "idle" /\ id # ""
  /\ \E cfg \in LifecycleConfigs(kind) :
       UpdateCalled(cfg) /\ payload' # NoFields
  /\ UNCHANGED <<attrs, remoteAttrs, regVars, extVars>>
  /\ \E e \in MutateOutcomes(remoteLive, id) :
       /\ e # "none"
       /\ remoteErr' = e
  /\ op' = "Update" /\ result' = "err_put" /\ postResp' = "<none>"
  /\ readObs' = "none"
  /\ posts' = 0 /\ gets' = 0 /\ puts' = 2 /\ deletes' = 0
  /\ PollAtRest
  /\ UNCHANGED <<resVars, pc>>
UpdatePutFails_ClearsId ==
  /\ pc = "idle" /\ id # ""
  /\ \E cfg \in LifecycleConfigs(kind) :
       UpdateCalled(cfg) /\ payload' # NoFields
  /\ UNCHANGED <<attrs, remoteAttrs, regVars, extVars>>
  /\ \E e \in MutateOutcomes(remoteLive, id) :
       /\ e # "none"
       /\ remoteErr' = e
  /\ id' = ""
  /\ op' = "Update" /\ result' = "err_put" /\ postResp' = "<none>"
  /\ readObs' = "none"
  /\ posts' = 0 /\ gets' = 0 /\ puts' = 1 /\ deletes' = 0
  /\ PollAtRest
  /\ UNCHANGED <<kind, status, issued, remoteLive, pc>>
UpdatePutFails ==
  /\ pc = "idle" /\ id # ""
  /\ \E cfg \in LifecycleConfigs(kind) :
       UpdateCalled(cfg) /\ payload' # NoFields
  /\ UNCHANGED <<attrs, remoteAttrs, regVars, extVars>>
  /\ \E e \in MutateOutcomes(remoteLive, id) :
       /\ e # "none"
       /\ remoteErr' = e
  /\ op' = "Update" /\ result' = "err_put" /\ postResp' = "<none>"
  /\ readObs' = "none"
  /\ posts' = 0 /\ gets' = 0 /\ puts' = 1 /\ deletes' = 0
  /\ PollAtRest
  /\ UNCHANGED <<resVars, pc>>

\* Put succeeds and the handler enters the poller.
UpdateStartsPolling ==
  /\ pc = "idle" /\ id # "" /\ Polls(kind)
  /\ "none" \in MutateOutcomes(remoteLive, id)
  /\ \E cfg \in LifecycleConfigs(kind) :
       UpdateCalled(cfg) /\ payload' # NoFields
  /\ remoteAttrs' = ApplyPut(remoteAttrs, payload')
  /\ UNCHANGED <<attrs, regVars, extVars>>
  /\ pc' = "polling" /\ op' = "Update" /\ result' = "none" /\ remoteErr' = "none"
  /\ postResp' = "<none>" /\ readObs' = "none"
  /\ posts' = 0 /\ gets' = 0 /\ puts' = 1 /\ deletes' = 0
  /\ PollStart
  /\ UNCHANGED resVars

\* Put succeeds and the handler goes straight to Read.
UpdateReadsBack ==
  /\ pc = "idle" /\ id # "" /\ ~Polls(kind)
  /\ "none" \in MutateOutcomes(remoteLive, id)
  /\ \E cfg \in LifecycleConfigs(kind) :
       /\ UpdateCalled(cfg) /\ payload' # NoFields
       /\ remoteAttrs' = ApplyPut(remoteAttrs, payload')
       /\ \E g \in GetOutcomes(remoteLive, id) :
            FinishWithRead(g) /\ attrs' = AfterRead(g, cfg, remoteAttrs')
  /\ UNCHANGED <<regVars, extVars>>
  /\ op' = "Update" /\ postResp' = "<none>"
  /\ posts' = 0 /\ gets' = 1 /\ puts' = 1 /\ deletes' = 0
  /\ PollAtRest
  /\ UNCHANGED <<kind, issued, remoteLive>>

Update == UpdateNoChange \/ UpdatePutFails \/ UpdateStartsPolling \/ UpdateReadsBack

----------------------------------------------------------------------------
(* resource<Kind>Delete                                                     *)

\* The remote Delete fails: the error is returned, the ID is kept.
\* (variant: the ID is cleared before the remote call)
DeleteFails_ClearsId ==
  /\ pc = "idle" /\ id # ""
  /\ \E e \in MutateOutcomes(remoteLive, id) :
       /\ e # "none"
       /\ remoteErr' = e
  /\ id' = ""
  /\ op' = "Delete" /\ result' = "err_delete" /\ postResp' = "<none>"
  /\ readObs' = "none"
  /\ posts' = 0 /\ gets' = 0 /\ puts' = 0 /\ deletes' = 1
  /\ PollAtRest
  /\ NoConfig
  /\ UNCHANGED <<kind, status, issued, remoteLive, pc, attrs, remoteAttrs, regVars, extVars>>
DeleteFails ==
  /\ pc = "idle" /\ id # ""
  /\ NoConfig
  /\ UNCHANGED <<attrs, remoteAttrs, regVars, extVars>>
  /\ \E e \in MutateOutcomes(remoteLive, id) :
       /\ e # "none"
       /\ remoteErr' = e
  /\ op' = "Delete" /\ result' = "err_delete" /\ postResp' = "<none>"
  /\ readObs' = "none"
  /\ posts' = 0 /\ gets' = 0 /\ puts' = 0 /\ deletes' = 1
  /\ PollAtRest
  /\ UNCHANGED <<resVars, pc>>

\* The remote Delete succeeds: the ID is cleared.
DeleteSucceeds ==
  /\ pc = "idle" /\ id # ""
  /\ NoConfig
  /\ attrs' = NoFields /\ remoteAttrs' = NoFields
  /\ UNCHANGED <<regVars, extVars>>
  /\ "none" \in MutateOutcomes(remoteLive, id)
  /\ remoteLive' = remoteLive \ {id}
  /\ id' = ""
  /\ op' = "Delete" /\ result' = "ok" /\ remoteErr' = "none" /\ postResp' = "<none>"
  /\ readObs' = "none"
  /\ posts' = 0 /\ gets' = 0 /\ puts' = 0 /\ deletes' = 1
  /\ PollAtRest
  /\ UNCHANGED <<kind, status, issued, pc>>

Delete == DeleteFails \/ DeleteSucceeds

----------------------------------------------------------------------------
(* waitForClusterReady                                                      *)

\* One ticker period passes while the poller is blocked in select.  The
\* timer fires once, so nothing is counted beyond one period past the deadline.
Tick ==
  /\ pc = "polling"
  /\ ReadyCases = {}
  /\ elapsed <= TimeoutTicks
  /\ elapsed' = elapsed + 1
  /\ tickPending' = TRUE
  /\ UNCHANGED <<resVars, opVars, callVars, polled, waitResult, ctxDone, lastObs,
                 onlyPending, pendingRun, pollReads, cancelReads, cfgVars, regVars, extVars>>

\* The caller cancels the context of the running handler.
Cancel ==
  /\ pc = "polling"
  /\ ~ctxDone
  /\ ctxDone' = TRUE
  /\ UNCHANGED <<resVars, opVars, callVars, polled, waitResult, elapsed, tickPending,
                 lastObs, onlyPending, pendingRun, pollReads, cancelReads,
                 cfgVars, regVars, extVars>>

\* case <-timeout: the poller returns the timeout error and so does the handler.
PollTimeout ==
  /\ pc = "polling"
  /\ "timeout" \in ReadyCases
  /\ waitResult' = "timeout"
  /\ pc' = "idle" /\ result' = "err_timeout"
  /\ id' = WaitFailed(id).id
  /\ deletes' = deletes + WaitFailed(id).deletes
  /\ UNCHANGED <<kind, status, issued, remoteLive, op, remoteErr, postResp, readObs,
                 polled, elapsed, tickPending, ctxDone, lastObs, onlyPending,
                 pendingRun, pollReads, cancelReads, posts, gets, puts,
                 cfgVars, regVars, extVars>>

\* case <-ctx.Done(): the poller returns ctx.Err() and so does the handler.
PollCancelled ==
  /\ pc = "polling"
  /\ "done" \in ReadyCases
  /\ waitResult' = "cancelled"
  /\ pc' = "idle" /\ result' = "err_cancelled"
  /\ id' = WaitFailed(id).id
  /\ deletes' = deletes + WaitFailed(id).deletes
  /\ UNCHANGED <<kind, status, issued, remoteLive, op, remoteErr, postResp, readObs,
                 polled, elapsed, tickPending, ctxDone, lastObs, onlyPending,
                 pendingRun, pollReads, cancelReads, posts, gets, puts,
                 cfgVars, regVars, extVars>>

\* case <-ticker.C: one Get.  An error or a status other than READY goes
\* round the loop; READY returns nil and the handler ends with its Read.
\* (variant: a failed Get ends the poll with that error)
PollTick_StopsOnError ==
  /\ pc = "polling"
  /\ "tick" \in ReadyCases
  /\ tickPending' = FALSE
  /\ pollReads' = pollReads + 1
  /\ cancelReads' = IF ctxDone THEN cancelReads + 1 ELSE cancelReads
  /\ \E g \in GetOutcomes(remoteLive, id) :
       /\ lastObs' = IF g.err # "none" THEN "err" ELSE g.status
       /\ IF IsReady(g)
            THEN /\ waitResult' = "nil"
                 /\ gets' = gets + 2
                 /\ UNCHANGED <<onlyPending, pendingRun>>
                 /\ \E g2 \in GetOutcomes(remoteLive, id) :
                      FinishWithRead(g2) /\ attrs' = AfterRead(g2, desired, remoteAttrs)
            ELSE /\ gets' = gets + 1
                 /\ onlyPending' = (onlyPending /\ g.err = "none" /\ g.status = "PENDING")
                 /\ pendingRun' = IF onlyPending' THEN pendingRun + 1 ELSE 0
                 /\ pc' = IF g.err # "none" THEN "idle" ELSE pc
                 /\ result' = IF g.err # "none" THEN "err_read" ELSE result
                 /\ remoteErr' = IF g.err # "none" THEN g.err ELSE remoteErr
                 /\ waitResult' = IF g.err # "none" THEN "failed" ELSE waitResult
                 /\ UNCHANGED <<id, status, readObs, attrs>>
  /\ UNCHANGED <<kind, issued, remoteLive, op, postResp, polled, elapsed, ctxDone,
                 posts, puts, deletes, prior, desired, remoteAttrs, payload, regVars, extVars>>
PollTick ==
  /\ pc = "polling"
  /\ "tick" \in ReadyCases
  /\ tickPending' = FALSE
  /\ pollReads' = pollReads + 1
  /\ cancelReads' = IF ctxDone THEN cancelReads + 1 ELSE cancelReads
  /\ \E g \in GetOutcomes(remoteLive, id) :
       /\ lastObs' = IF g.err # "none" THEN "err" ELSE g.status
       /\ IF IsReady(g)
            THEN /\ waitResult' = "nil"
                 /\ gets' = gets + 2
                 /\ UNCHANGED <<onlyPending, pendingRun>>
                 /\ \E g2 \in GetOutcomes(remoteLive, id) :
                      FinishWithRead(g2) /\ attrs' = AfterRead(g2, desired, remoteAttrs)
            ELSE /\ gets' = gets + 1
                 /\ onlyPending' = (onlyPending /\ g.err = "none" /\ g.status = "PENDING")
                 /\ pendingRun' = IF onlyPending' THEN pendingRun + 1 ELSE 0
                 /\ UNCHANGED <<id, status, pc, result, remoteErr, readObs, waitResult,
                                attrs>>
  /\ UNCHANGED <<kind, issued, remoteLive, op, postResp, polled, elapsed, ctxDone,
                 posts, puts, deletes, prior, desired, remoteAttrs, payload, regVars, extVars>>

----------------------------------------------------------------------------
(* The environment                                                          *)

\* A remote resource is removed behind the provider's back.
Disappear ==
  /\ \E x \in remoteLive : remoteLive' = remoteLive \ {x}
  /\ UNCHANGED <<kind, id, status, issued, opVars, pollVars, callVars, cfgVars, regVars, extVars>>

Next ==
  \/ Create \/ Read \/ Update \/ Delete
  \/ Tick \/ Cancel \/ PollTimeout \/ PollCancelled \/ PollTick
  \/ Disappear

Spec == Init /\ [][Next]_vars

\* The clock advances and the goroutine of the poller is scheduled.
FairSpec == Spec /\ WF_vars(Tick) /\ WF_vars(PollTimeout \/ PollCancelled \/ PollTick)

----------------------------------------------------------------------------
(* The payload and dispatch operators applied to pairs of configurations,   *)
(* and lookups in the provider's registry.                                  *)

\* The configurations that differ from cfg in at most MaxChanged attributes.
Neighbours(k, cfg) ==
  {Flip(k, cfg, S) : S \in {T \in SUBSET Settable(k) : Cardinality(T) <= MaxChanged}}

PlanInit ==
  /\ kind \in Kinds
  /\ id = "" /\ status = "" /\ issued = 0 /\ remoteLive = {}
  /\ pc = "idle" /\ op = "none" /\ result = "none" /\ remoteErr = "none"
  /\ postResp = "<none>" /\ readObs = "none"
  /\ polled = FALSE /\ waitResult = "none" /\ elapsed = 0
  /\ tickPending = FALSE /\ ctxDone = FALSE /\ lastObs = "none"
  /\ onlyPending = TRUE /\ pendingRun = 0 /\ pollReads = 0 /\ cancelReads = 0
  /\ posts = 0 /\ gets = 0 /\ puts = 0 /\ deletes = 0
  /\ prior \in {BaseConfig(kind), Flip(kind, BaseConfig(kind), Settable(kind))}
  /\ desired \in Neighbours(kind, prior)
  /\ attrs = NoFields /\ remoteAttrs = NoFields /\ payload = NoFields
  /\ provider \in Providers /\ lookup = NoLookup
  /\ ExtAtRest

\* Create builds its payload from the desired configuration.
ToRemotePayload ==
  /\ op = "none"
  /\ op' = "ToRemotePayload"
  /\ payload' = CreatePayload(kind, desired)
  /\ UNCHANGED <<resVars, pc, result, remoteErr, postResp, readObs, pollVars,
                 callVars, attrs, prior, desired, remoteAttrs, regVars, extVars>>

\* Read is handed that payload back, on a d that holds the prior values.
FromRemotePayload ==
  /\ op = "ToRemotePayload"
  /\ op' = "FromRemotePayload"
  /\ attrs' = ReadAttrs(kind, prior, payload)
  /\ UNCHANGED <<resVars, pc, result, remoteErr, postResp, readObs, pollVars,
                 callVars, prior, desired, remoteAttrs, payload, regVars, extVars>>

\* The change from prior to desired is dispatched; when it goes to Update,
\* Update builds its payload.
Plan ==
  /\ op = "none"
  /\ op' = "Plan"
  /\ result' = Dispatch(kind, prior, desired)
  /\ payload' = IF Dispatch(kind, prior, desired) = "update"
                  THEN UpdatePayload(kind, prior, desired)
                  ELSE NoFields
  /\ UNCHANGED <<resVars, pc, remoteErr, postResp, readObs, pollVars,
                 callVars, attrs, prior, desired, remoteAttrs, regVars, extVars>>

\* A kind name is looked up among the resources or the data sources.
Lookup ==
  /\ op = "none"
  /\ op' = "Lookup"
  /\ \E class \in {"resource", "data"}, n \in LookupNames :
       lookup' = [class |-> class, name |-> n, found |-> n \in Registered(provider, class)]
  /\ UNCHANGED <<resVars, pc, result, remoteErr, postResp, readObs, pollVars,
                 callVars, cfgVars, provider, extVars>>

PlanNext == ToRemotePayload \/ FromRemotePayload \/ Plan \/ Lookup

PlanSpec == PlanInit /\ [][PlanNext]_vars

----------------------------------------------------------------------------
(* Validation of a Nomad cluster configuration against its schema, and the  *)
(* values the handlers then get from d.Get.                                 *)

\* Required: true, Default: and ValidateFunc: of resourceNomadCluster.
resourceNomadClusterRequired ==
  {"name", "region", "server_count", "client_count", "instance_type", "datacenter"}
resourceNomadClusterDefault ==
  [vault_integration |-> TRUE, consul_integration |-> TRUE, acl_enabled |-> TRUE,
   tls_enabled |-> TRUE, web3_enabled |-> FALSE, kata_containers |-> FALSE,
   gpu_support |-> FALSE]

\* validation.StringInSlice(valid, false) and validation.IntBetween(min, max)
StringInSlice(valid, v) == v \in valid
IntBetween(min, max, v) == v >= min /\ v <= max

resourceNomadClusterValidateFunc(a, v) ==
  CASE a = "region" ->
         StringInSlice({"GRA", "SBG", "RBX", "BHS", "WAW", "DE", "UK", "SGP", "SYD",
                        "US-EAST", "US-WEST"}, v)
    [] a = "server_count" -> IntBetween(1, 5, v)
    [] a = "client_count" -> IntBetween(0, 100, v)
    [] a = "instance_type" ->
         StringInSlice({"s1-2", "s1-4", "s1-8", "c2-7", "c2-15", "c2-30", "c2-60",
                        "c2-120", "r2-15", "r2-30", "r2-60", "r2-120", "t1-45",
                        "t1-90", "t1-180"}, v)
    [] OTHER -> TRUE

\* Validation of a configuration by the schema: a required attribute that
\* is not given, and a given value its ValidateFunc rejects, are errors.
SchemaValidate(cfg) ==
  {[attr |-> a, problem |-> "missing"] : a \in resourceNomadClusterRequired \ DOMAIN cfg}
  \cup {[attr |-> a, problem |-> "invalid"] :
          a \in {b \in DOMAIN cfg : ~resourceNomadClusterValidateFunc(b, cfg[b])}}

\* d.Get(a) on a validated configuration: the given value, else the
\* schema's Default, else the zero value of the type.
WithDefaults(cfg) ==
  [a \in Settable("nomad") |->
     IF a \in DOMAIN cfg THEN cfg[a]
     ELSE IF a \in DOMAIN resourceNomadClusterDefault THEN resourceNomadClusterDefault[a]
     ELSE ZeroValue(TypeOf("nomad", a))]

\* The values the configurations of the tests give: names of 2, 3, 18, 50
\* and 51 characters, the regions of the schema and of the tests, counts at
\* and around the limits.  A configuration gives every attribute, or
\* leaves instance_type and datacenter out as the test configurations do,
\* or leaves any of the attributes but name and region out.
NameValues ==
  {"ab", "abc", "test-nomad-minimal",
   "n2345678901234567890123456789012345678901234567890",
   "n23456789012345678901234567890123456789012345678901"}
RegionValues == {"GRA", "eu-west-1", "invalid-region"}
ServerCounts == {0, 1, 3, 5, 6, 10, 15}
ClientCounts == {0, 3, 100, 150}
NomadInputs ==
  [name : NameValues, region : RegionValues, server_count : ServerCounts,
   client_count : ClientCounts, instance_type : {"s1-2", "m1-large"},
   datacenter : {"dc1"}, vault_integration : BOOLEAN, consul_integration : {TRUE}]
Omittable ==
  {"server_count", "client_count", "instance_type", "datacenter",
   "vault_integration", "consul_integration"}
NomadConfigs ==
  {[a \in DOMAIN full \ O |-> full[a]] :
     full \in NomadInputs, O \in {{}, {"instance_type", "datacenter"}}}
  \cup {[a \in DOMAIN full \ O |-> full[a]] :
          full \in {f \in NomadInputs : f.server_count = 3 /\ f.client_count = 3},
          O \in SUBSET Omittable}

ValidateInit ==
  /\ kind = "nomad"
  /\ id = "" /\ status = "" /\ issued = 0 /\ remoteLive = {}
  /\ pc = "idle" /\ op = "none" /\ result = "none" /\ remoteErr = "none"
  /\ postResp = "<none>" /\ readObs = "none"
  /\ polled = FALSE /\ waitResult = "none" /\ elapsed = 0
  /\ tickPending = FALSE /\ ctxDone = FALSE /\ lastObs = "none"
  /\ onlyPending = TRUE /\ pendingRun = 0 /\ pollReads = 0 /\ cancelReads = 0
  /\ posts = 0 /\ gets = 0 /\ puts = 0 /\ deletes = 0
  /\ desired \in NomadConfigs
  /\ attrs = NoFields /\ prior = NoFields /\ remoteAttrs = NoFields /\ payload = NoFields
  /\ provider = "sdk" /\ lookup = NoLookup
  /\ ExtAtRest

\* The configuration is validated before any handler runs; a valid one is
\* handed to Create, whose d.Get sees the defaults.
Validate ==
  /\ op = "none"
  /\ op' = "Validate"
  /\ diags' = SchemaValidate(desired)
  /\ result' = IF diags' = {} THEN "ok" ELSE "err_validate"
  /\ attrs' = IF diags' = {} THEN WithDefaults(desired) ELSE NoFields
  /\ UNCHANGED <<resVars, pc, remoteErr, postResp, readObs, pollVars, callVars,
                 prior, desired, remoteAttrs, payload, regVars,
                 providerConfig, env, client, dataVars>>

ValidateNext == Validate

ValidateSpec == ValidateInit /\ [][ValidateNext]_vars

----------------------------------------------------------------------------
(* HashiCorpOVHProvider.Configure                                           *)

\* The four credentials of HashiCorpOVHProviderModel and the environment
\* variable read for each.
Credentials ==
  {"ovh_endpoint", "ovh_application_key", "ovh_application_secret", "ovh_consumer_key"}
EnvVar(c) ==
  CASE c = "ovh_endpoint" -> "OVH_ENDPOINT"
    [] c = "ovh_application_key" -> "OVH_APPLICATION_KEY"
    [] c = "ovh_application_secret" -> "OVH_APPLICATION_SECRET"
    [] c = "ovh_consumer_key" -> "OVH_CONSUMER_KEY"

\* A types.String of the provider block is null (not given), empty or a
\* value; os.Getenv gives "" for a variable that is not set.
NullString == "<null>"
ProviderConfigs == [Credentials -> {NullString, "", "from-config"}]
Environments == [{EnvVar(c) : c \in Credentials} -> {"", "from-env"}]

\* v := os.Getenv(...); if !config.X.IsNull() { v = config.X.ValueString() }
\* (variant: the environment variable wins when it is set)
Effective_EnvFirst(c, cfg, e) ==
  IF e[EnvVar(c)] # "" THEN e[EnvVar(c)]
  ELSE IF cfg[c] # NullString THEN cfg[c] ELSE ""
Effective(c, cfg, e) ==
  IF cfg[c] # NullString THEN cfg[c] ELSE e[EnvVar(c)]

ConfigureInit ==
  /\ kind \in Kinds
  /\ id = "" /\ status = "" /\ issued = 0 /\ remoteLive = {}
  /\ pc = "idle" /\ op = "none" /\ result = "none" /\ remoteErr = "none"
  /\ postResp = "<none>" /\ readObs = "none"
  /\ polled = FALSE /\ waitResult = "none" /\ elapsed = 0
  /\ tickPending = FALSE /\ ctxDone = FALSE /\ lastObs = "none"
  /\ onlyPending = TRUE /\ pendingRun = 0 /\ pollReads = 0 /\ cancelReads = 0
  /\ posts = 0 /\ gets = 0 /\ puts = 0 /\ deletes = 0
  /\ attrs = NoFields /\ prior = NoFields /\ desired = NoFields
  /\ remoteAttrs = NoFields /\ payload = NoFields
  /\ provider = "framework" /\ lookup = NoLookup
  /\ diags = {} /\ client = NoFields
  /\ providerConfig \in ProviderConfigs /\ env \in Environments
  /\ filters = NoFields /\ listing = <<>> /\ clusters = <<>>

\* What Configure leaves alone.
ConfigureFrame ==
  UNCHANGED <<resVars, pc, remoteErr, postResp, readObs, pollVars, callVars,
              cfgVars, regVars, providerConfig, env, dataVars>>

\* A credential is empty: one error per empty credential, no client.
ConfigureMissing ==
  /\ op = "none"
  /\ \E c \in Credentials : Effective(c, providerConfig, env) = ""
  /\ op' = "Configure" /\ result' = "err_configure"
  /\ diags' = {c \in Credentials : Effective(c, providerConfig, env) = ""}
  /\ client' = NoFields
  /\ ConfigureFrame

\* ovh.NewClient returns an error: it is reported, no client.
ConfigureClientFails ==
  /\ op = "none"
  /\ \A c \in Credentials : Effective(c, providerConfig, env) # ""
  /\ op' = "Configure" /\ result' = "err_configure"
  /\ diags' = {"ovh_client"}
  /\ client' = NoFields
  /\ ConfigureFrame

\* The client is created and handed to the resources and data sources.
ConfigureSucceeds ==
  /\ op = "none"
  /\ \A c \in Credentials : Effective(c, providerConfig, env) # ""
  /\ op' = "Configure" /\ result' = "ok"
  /\ diags' = {}
  /\ client' = [c \in Credentials |-> Effective(c, providerConfig, env)]
  /\ ConfigureFrame

Configure == ConfigureMissing \/ ConfigureClientFails \/ ConfigureSucceeds

ConfigureSpec == ConfigureInit /\ [][Configure]_vars

----------------------------------------------------------------------------
(* dataSource<Kind>ClustersRead                                             *)

\* The kinds that have a data source.
DataKinds == {"nomad", "vault", "consul", "boundary"}

\* The records of the remote list, as far as the data sources look at
\* them; Absent stands for a field that is missing or is not a string.
RemoteClusters ==
  [region : {"GRA", "SBG", Absent}, status : {"READY", "PENDING", Absent},
   datacenter : {"dc1", "dc2"}]
Listings == UNION {[1..n -> RemoteClusters] : n \in 0..MaxListed}

\* The filter arguments, "" when not given; only the Consul data source
\* has a datacenter filter.
FilterSets(k) ==
  [region : {"", "GRA"}, status : {"", "READY"},
   datacenter : IF k = "consul" THEN {"", "dc1"} ELSE {""}]

\* One round of the filter loop.  cluster["region"].(string) and its like
\* are evaluated only when the filter is given, and panic unless the field
\* holds a string.
Keeps(k, f, c) ==
  IF f.region # "" /\ c.region = Absent THEN "panic"
  ELSE IF f.region # "" /\ c.region # f.region THEN "skip"
  ELSE IF k = "consul" /\ f.datacenter # "" /\ c.datacenter # f.datacenter THEN "skip"
  ELSE IF f.status # "" /\ c.status = Absent THEN "panic"
  ELSE IF f.status # "" /\ c.status # f.status THEN "skip"
  ELSE "keep"

\* The clusterMap literal: the fields a kind's data source copies.
ClusterMap(k, c) ==
  IF k \in {"nomad", "consul"}
    THEN [region |-> c.region, datacenter |-> c.datacenter, status |-> c.status]
    ELSE [region |-> c.region, status |-> c.status]

\* The list d.Set("clusters", ...) is given.
ClusterList(k, f, list) ==
  LET kept == SelectSeq(list, LAMBDA c : Keeps(k, f, c) = "keep")
  IN [i \in 1..Len(kept) |-> ClusterMap(k, kept[i])]

DataInit ==
  /\ kind \in DataKinds
  /\ id = "" /\ status = "" /\ issued = 0 /\ remoteLive = {}
  /\ pc = "idle" /\ op = "none" /\ result = "none" /\ remoteErr = "none"
  /\ postResp = "<none>" /\ readObs = "none"
  /\ polled = FALSE /\ waitResult = "none" /\ elapsed = 0
  /\ tickPending = FALSE /\ ctxDone = FALSE /\ lastObs = "none"
  /\ onlyPending = TRUE /\ pendingRun = 0 /\ pollReads = 0 /\ cancelReads = 0
  /\ posts = 0 /\ gets = 0 /\ puts = 0 /\ deletes = 0
  /\ attrs = NoFields /\ prior = NoFields /\ desired = NoFields
  /\ remoteAttrs = NoFields /\ payload = NoFields
  /\ provider = "sdk" /\ lookup = NoLookup
  /\ diags = {} /\ providerConfig = NoFields /\ env = NoFields /\ client = NoFields
  /\ filters \in FilterSets(kind) /\ listing \in Listings /\ clusters = <<>>

\* What a data source's Read leaves alone.
DataFrame ==
  UNCHANGED <<kind, status, issued, remoteLive, pc, postResp, readObs, pollVars,
              posts, puts, deletes, cfgVars, regVars, confVars, filters, listing>>

\* The Get of the collection fails: the error is returned.
DataReadFails ==
  /\ op = "none"
  /\ op' = "DataRead" /\ result' = "err_read" /\ remoteErr' = "other"
  /\ gets' = 1
  /\ UNCHANGED <<id, clusters>>
  /\ DataFrame

\* A type assertion of the filter loop panics.
DataReadPanics ==
  /\ op = "none"
  /\ \E i \in 1..Len(listing) : Keeps(kind, filters, listing[i]) = "panic"
  /\ op' = "DataRead" /\ result' = "panic" /\ remoteErr' = "none"
  /\ gets' = 1
  /\ UNCHANGED <<id, clusters>>
  /\ DataFrame

\* The clusters that pass the filters are stored and the ID is set.
DataReadSucceeds ==
  /\ op = "none"
  /\ \A i \in 1..Len(listing) : Keeps(kind, filters, listing[i]) # "panic"
  /\ op' = "DataRead" /\ result' = "ok" /\ remoteErr' = "none"
  /\ gets' = 1
  /\ clusters' = ClusterList(kind, filters, listing)
  /\ id' = "<timestamp>"
  /\ DataFrame

DataRead == DataReadFails \/ DataReadPanics \/ DataReadSucceeds

DataSpec == DataInit /\ [][DataRead]_vars

----------------------------------------------------------------------------
(* Properties of the handlers and of the poller.                            *)

ErrorResults ==
  {"err_post", "err_put", "err_delete", "err_read", "err_timeout", "err_cancelled"}

\* C1: Create success path.  For a Nomad cluster, when Post returns the id
\* "abc123", the poller's Gets report PENDING once and then READY, and the
\* Get of the final Read reports READY, Create returns without error with
\* the remote ID "abc123" and the status READY in state; and whenever
\* Create succeeds the stored ID is exactly the id Post returned.
C1_CreateSuccessPath ==
  /\ (/\ op = "Create" /\ pc = "idle" /\ kind = "nomad"
      /\ postResp = "abc123"
      /\ onlyPending /\ pendingRun = 1 /\ lastObs = "READY"
      /\ readObs = "READY")
       => (result = "ok" /\ id = "abc123" /\ status = "READY")
  /\ (op = "Create" /\ pc = "idle" /\ result = "ok")
       => (id = postResp /\ id # "")

C1_Witness ==
  /\ op = "Create" /\ pc = "idle" /\ kind = "nomad"
  /\ postResp = "abc123" /\ pollReads = 2 /\ pendingRun = 1 /\ onlyPending
  /\ lastObs = "READY" /\ readObs = "READY"
  /\ result = "ok" /\ id = "abc123" /\ status = "READY"

\* C2: a Read whose Get fails with a not-found error clears the local ID
\* and returns no error.
C2_ReadNotFoundIsAbsence ==
  (op = "Read" /\ pc = "idle" /\ remoteErr = "notfound")
    => (id = "" /\ result = "ok")

\* C3: a Delete whose remote call fails with a not-found error returns
\* success, for every resource kind.
C3_DeleteIdempotent ==
  (op = "Delete" /\ pc = "idle" /\ remoteErr = "notfound") => result = "ok"

\* C4: for every resource kind, a Create that returns success has run the
\* readiness poller, and the poller has seen a Get report READY.
C4_CreatePollsEveryKind ==
  (op = "Create" /\ pc = "idle" /\ result = "ok")
    => (polled /\ waitResult = "nil" /\ lastObs = "READY")

\* C5: when the Post response has no id field, or an id that is not a
\* non-empty string, Create returns an error value: it does not panic,
\* stores no ID and issues no further remote call.
C5_MissingIdIsError ==
  (op = "Create" /\ postResp \in {Absent, NonString, ""})
    => (pc = "idle" /\ result \in ErrorResults /\ id = "" /\ gets = 0)

\* C6: when the poller fails (timeout or cancellation) during Create, after
\* a successful Post, Create returns the error, has issued no Delete (nor
\* any call but its one Post and the poller's Gets), and the ID that Post
\* returned is still recorded in local state.
C6_CreatedButUnready ==
  (op = "Create" /\ waitResult \in {"timeout", "cancelled"})
    => /\ pc = "idle"
       /\ result = (IF waitResult = "timeout" THEN "err_timeout" ELSE "err_cancelled")
       /\ id = postResp
       /\ deletes = 0 /\ puts = 0 /\ posts = 1
       /\ gets = pollReads

C6_Witness ==
  /\ op = "Create" /\ pc = "idle" /\ waitResult = "timeout"
  /\ result = "err_timeout" /\ id = "abc123" /\ id \in remoteLive /\ deletes = 0

\* C7: once a Get of the poller has reported the status FAILED, the poller
\* has stopped and the handler has returned an error for that status.
C7_FailedStopsPoller ==
  (polled /\ lastObs = "FAILED")
    => (pc = "idle" /\ waitResult = "failed" /\ result \in ErrorResults)

C10_PollerSuccessPath ==
  /\ (polled /\ pc = "idle" /\ onlyPending /\ pendingRun = 2 /\ lastObs = "READY")
       => (waitResult = "nil" /\ pollReads = 3)
  /\ (pc = "polling") => lastObs # "READY"
  /\ polled => pollReads <= elapsed

C10_Witness ==
  /\ polled /\ pc = "idle" /\ waitResult = "nil"
  /\ onlyPending /\ pendingRun = 2 /\ lastObs = "READY" /\ pollReads = 3

----------------------------------------------------------------------------
(* Properties of Update, of the payloads and of the registry.               *)

\* None of the attributes the Update handler watches differs between the
\* state it was called with and the configuration.
NoWatchedChange ==
  \A a \in Watched(kind) : DGet(kind, prior, a) = DGet(kind, desired, a)

\* The attributes in which the configuration differs from the prior state.
ChangedAttrs == {a \in Settable(kind) : DGet(kind, prior, a) # DGet(kind, desired, a)}

\* The key under which Create sends attribute a.
RemoteKey(k, a) == CHOOSE key \in DOMAIN CreateFields(k) : CreateFields(k)[key] = a

C12_DiffMinimality ==
  (op = "Plan")
    => \A a \in Settable(kind) \ ForceNew(kind) :
         (ChangedAttrs = {a})
           => (result = "update" /\ DOMAIN payload = {RemoteKey(kind, a)})

\* C13: the Put payload of Update never holds a field whose desired value
\* equals its last-known value, and a field it holds carries the desired
\* value; desired server_count 5 against last-known 3, all else equal,
\* gives exactly {"serverCount": 5}.
C13_OnlyChangedFieldsSent ==
  (op = "Plan" /\ result = "update")
    => /\ \A a \in Settable(kind) :
            (DGet(kind, prior, a) = DGet(kind, desired, a))
              => RemoteKey(kind, a) \notin DOMAIN payload
       /\ \A a \in Settable(kind) :
            (RemoteKey(kind, a) \in DOMAIN payload)
              => payload[RemoteKey(kind, a)].val = desired[a]
       /\ (kind = "nomad" /\ prior.server_count = 3 /\ ChangedAttrs = {"server_count"})
            => payload = [serverCount |-> [json |-> "number", val |-> 5]]

C13_Witness ==
  /\ op = "Plan" /\ result = "update" /\ kind = "nomad"
  /\ prior.server_count = 3 /\ desired.server_count = 5
  /\ ChangedAttrs = {"server_count"}
  /\ payload = [serverCount |-> [json |-> "number", val |-> 5]]

\* An attribute marked ForceNew (name, region) differs.
ImmutableChanged ==
  \/ DGet(kind, prior, "name") # DGet(kind, desired, "name")
  \/ DGet(kind, prior, "region") # DGet(kind, desired, "region")

C15_UpdateRepolls ==
  (op = "Update" /\ pc = "idle" /\ puts = 1 /\ result = "ok")
    => (polled /\ waitResult = "nil" /\ lastObs = "READY")

\* C16: when the tags change, the Put of Update carries the whole desired
\* tag map, and after a successful Update the resource's tags are the
\* desired ones: a key of the old map that the desired map lacks is gone,
\* remotely and in state.
C16_TagsFullReplace ==
  (op = "Update" /\ DGet(kind, prior, "tags") # DGet(kind, desired, "tags"))
    => /\ "tags" \in DOMAIN payload
       /\ payload.tags = [json |-> "object", val |-> desired.tags]
       /\ (pc = "idle" /\ result = "ok")
            => /\ attrs.tags = desired.tags
               /\ remoteAttrs.tags.val = desired.tags
               /\ \A t \in DOMAIN DGet(kind, prior, "tags") \ DOMAIN desired.tags :
                    t \notin DOMAIN attrs.tags /\ t \notin DOMAIN remoteAttrs.tags.val

C16_Witness ==
  /\ op = "Update" /\ pc = "idle" /\ result = "ok" /\ kind = "nomad" /\ polled
  /\ prior.tags = TagsBefore /\ desired.tags = TagsAfter
  /\ attrs.tags = TagsAfter /\ "ManagedBy" \notin DOMAIN attrs.tags
  /\ attrs.tags.Owner = "john.doe"

\* The remote keys of the computed and of the sensitive attributes.
ComputedKeys(k) == {ReadFields(k)[a].key : a \in Computed(k)} \cup {"id"}
SensitiveKeys(k) == {ReadFields(k)[a].key : a \in Sensitive(k)}

\* C17: no Post or Put payload of any kind holds a computed attribute, and
\* no Put payload holds a sensitive one.
C17_NoComputedOrSensitiveSent ==
  /\ (op \in {"ToRemotePayload", "Plan"})
       => DOMAIN payload \cap ComputedKeys(kind) = {}
  /\ (op = "Plan") => DOMAIN payload \cap SensitiveKeys(kind) = {}

C17_Witness ==
  /\ op = "ToRemotePayload" /\ kind = "vault"
  /\ DOMAIN payload = DOMAIN resourceVaultClusterCreate
  /\ "rootToken" \in SensitiveKeys(kind) /\ "status" \in ComputedKeys(kind)

\* C18: the Create payload of a configuration, handed back through Read,
\* restores every non-computed attribute; each such attribute is written
\* and read under the same remote key.
C18_RoundTrip ==
  /\ (op = "FromRemotePayload") => attrs = desired
  /\ \A a \in Settable(kind) :
       /\ \E key \in DOMAIN CreateFields(kind) : CreateFields(kind)[key] = a
       /\ a \in DOMAIN ReadFields(kind)
       /\ ReadFields(kind)[a].key = RemoteKey(kind, a)

C18_Witness ==
  /\ op = "FromRemotePayload" /\ kind = "waypoint"
  /\ prior.capacity = 3 /\ desired.capacity = 5 /\ attrs = desired

\* C19: a successful Delete leaves the local ID empty; a failed Delete
\* leaves the local ID and the attributes as they were.
C19_DeleteFrame ==
  [][(op' = "Delete")
       => /\ (result' = "ok") => id' = ""
          /\ (result' # "ok") => (id' = id /\ attrs' = attrs /\ status' = status)]_vars

C19_Witness ==
  /\ op = "Delete" /\ result = "err_delete" /\ id = "abc123"
  /\ attrs \in LifecycleConfigs(kind) /\ deletes = 1

\* C20: the provider New returns has all six resource kinds and all four
\* data sources registered, and a lookup of any other name fails.
C20_AllKindsRegistered ==
  (op = "Lookup")
    => (lookup.found <=>
          lookup.name \in (IF lookup.class = "resource" THEN expectedResources
                                                        ELSE expectedDataSources))

----------------------------------------------------------------------------
(* Properties of the remote calls of one invocation and of its failures.    *)

\* C21: no automatic retries.  One invocation issues at most one Post (and
\* only in Create), at most one Put (only in Update) and at most one Delete
\* (only in Delete), whatever the remote answered; the only Get that is
\* repeated is the poller's, every other Get is the single one of Read.
C21_NoRetries ==
  /\ posts <= 1 /\ puts <= 1 /\ deletes <= 1
  /\ (posts = 1) => op = "Create"
  /\ (puts = 1) => op = "Update"
  /\ (deletes = 1) => op = "Delete"
  /\ gets <= pollReads + 1
  /\ (result \in {"err_post", "err_put", "err_delete"}) => gets = 0

C21_Witness ==
  /\ op = "Create" /\ pc = "polling" /\ posts = 1 /\ lastObs = "err"
  /\ pollReads = 3 /\ gets = 3 /\ puts = 0 /\ deletes = 0

\* C26: no orphan.  While a resource that a Create made still exists
\* remotely, local state holds its id; a failed Get never erases the ID of
\* a resource that still exists.
C26_NoOrphan ==
  /\ (remoteLive # {}) => id \in remoteLive
  /\ (result = "err_read" /\ remoteErr = "other" /\ postResp \in remoteLive)
       => id = postResp

\* C27: a Get that fails inside the poller does not end the poll.  The
\* poller goes round its loop, the error is not returned nor recorded, and
\* a READY reported by the next Get still makes the poller return success.
C27_PollErrorsIgnored ==
  [][/\ (pc = "polling" /\ pollReads' = pollReads + 1 /\ lastObs' = "err")
          => /\ pc' = "polling" /\ waitResult' = "none"
             /\ result' = result /\ remoteErr' = remoteErr /\ id' = id
     /\ (pc = "polling" /\ lastObs = "err" /\ lastObs' = "READY")
          => waitResult' = "nil"]_vars

C27_Witness ==
  /\ pc = "polling" /\ lastObs = "err" /\ pollReads = 2 /\ ~onlyPending
  /\ waitResult = "none" /\ result = "none" /\ remoteErr = "none"

\* C28: the poller returns success only when its last Get succeeded and
\* reported the string READY.  After a failed Get, or a Get that reported
\* a missing or non-string status, PENDING, FAILED or anything else, the
\* poller has not returned success: it is still polling, or it returned
\* the timeout or the cancellation error.
C28_SuccessOnlyOnReady ==
  /\ (waitResult = "nil") => (polled /\ lastObs = "READY" /\ pollReads >= 1)
  /\ (polled /\ lastObs \in {"none", "err", Absent, "PENDING", "FAILED"})
       => /\ waitResult \in {"none", "timeout", "cancelled"}
          /\ (waitResult = "none") <=> (pc = "polling")
  /\ (waitResult = "timeout") => result = "err_timeout"
  /\ (waitResult = "cancelled") => result = "err_cancelled"

C28_Witness ==
  /\ polled /\ pc = "polling" /\ lastObs = "FAILED" /\ waitResult = "none"
  /\ pollReads = 2 /\ elapsed < TimeoutTicks /\ ~ctxDone

----------------------------------------------------------------------------
(* Properties of the validation of a Nomad cluster configuration.           *)

\* Validation reported an error for attribute a.
Rejected(a) == \E d \in diags : d.attr = a

\* C22: server_count is accepted exactly when it lies in 1..10, and
\* client_count exactly when it lies in 0..100.
C22_CountValidation ==
  (op = "Validate" /\ {"server_count", "client_count"} \subseteq DOMAIN desired)
    => /\ ~Rejected("server_count") <=> desired.server_count \in 1..10
       /\ ~Rejected("client_count") <=> desired.client_count \in 0..100

\* C23: a name shorter than 3 or longer than 50 characters is rejected, the
\* region "invalid-region" is rejected and the region "eu-west-1" is
\* accepted; validation issues no remote call.
C23_NameRegionValidation ==
  (op = "Validate" /\ {"name", "region"} \subseteq DOMAIN desired)
    => /\ (Len(desired.name) < 3 \/ Len(desired.name) > 50)
            => (Rejected("name") /\ result = "err_validate")
       /\ (desired.region = "invalid-region") => Rejected("region")
       /\ (desired.region = "eu-west-1") => ~Rejected("region")
       /\ posts + gets + puts + deletes = 0

\* C24: the configuration that gives only name and region is valid, and
\* the handlers see server_count 3, client_count 3, vault_integration false
\* and consul_integration false.
C24_MinimalConfig ==
  (/\ op = "Validate" /\ DOMAIN desired = {"name", "region"}
   /\ desired.name = "test-nomad-minimal" /\ desired.region = "eu-west-1")
    => /\ result = "ok" /\ diags = {}
       /\ attrs.server_count = 3 /\ attrs.client_count = 3
       /\ attrs.vault_integration = FALSE /\ attrs.consul_integration = FALSE

----------------------------------------------------------------------------
(* Properties of the provider's configuration.                              *)

\* C25: for each credential the value given in the provider block is the
\* one used, whatever the environment variable holds (an empty given value
\* included); and when a credential is empty in the block and in the
\* environment, Configure reports an error and hands out no client.
C25_ConfigureCredentials ==
  (op = "Configure")
    => /\ \A c \in Credentials :
            /\ (providerConfig[c] # NullString /\ client # NoFields)
                 => client[c] = providerConfig[c]
            /\ (providerConfig[c] = NullString /\ client # NoFields)
                 => client[c] = env[EnvVar(c)]
            /\ (providerConfig[c] = "") => c \in diags
       /\ (\E c \in Credentials :
             providerConfig[c] \in {NullString, ""} /\ env[EnvVar(c)] = "")
            => (result = "err_configure" /\ diags # {} /\ client = NoFields)
       /\ (client # NoFields) <=> (result = "ok")

C25_Witness ==
  /\ op = "Configure" /\ result = "ok"
  /\ providerConfig.ovh_endpoint = "from-config" /\ env.OVH_ENDPOINT = "from-env"
  /\ client.ovh_endpoint = "from-config"
  /\ providerConfig.ovh_consumer_key = NullString
  /\ client.ovh_consumer_key = "from-env"

----------------------------------------------------------------------------
(* Properties of the cluster data sources.                                  *)

\* Cluster c matches every filter that is given.
Matches(k, f, c) ==
  /\ f.region = "" \/ c.region = f.region
  /\ f.status = "" \/ c.status = f.status
  /\ k # "consul" \/ f.datacenter = "" \/ c.datacenter = f.datacenter

\* C30: a data source returns exactly the clusters of the remote list that
\* match every given filter, in the list's order (the whole list when no
\* filter is given); when the Get fails it returns an error and sets
\* neither its ID nor its clusters.
C30_DataSourceFilters ==
  (op = "DataRead")
    => IF remoteErr # "none"
         THEN result = "err_read" /\ id = "" /\ clusters = <<>>
         ELSE LET matching == SelectSeq(listing, LAMBDA c : Matches(kind, filters, c))
              IN /\ result = "ok" /\ id # ""
                 /\ clusters = [i \in 1..Len(matching) |-> ClusterMap(kind, matching[i])]

====
